---- MODULE Spec2Model ----
(***************************************************************************)
(* Model of entt/core/algorithm.hpp: the three sort function objects       *)
(* std_sort, insertion_sort and radix_sort<Pass, N>.                       *)
(*                                                                         *)
(* One behaviour is one call of one engine on one input range.  Elements   *)
(* are records [key, id]: key is what the getter / comparator looks at,    *)
(* id is the element's position in the input, so that two elements with    *)
(* the same key can be told apart.  Iterators are 0-based offsets from     *)
(* `first`; storage is a sequence, read with At and written with Put.      *)
(***************************************************************************)
EXTENDS Integers, Sequences, FiniteSets

(* ---- bounds of the model ---- *)
MaxLen == 3
MaxKey == 7
MaxBits == 3

VARIABLES
    engine,        \* which function object is called
    Pass, N,       \* template parameters of radix_sort
    cmp,           \* the comparator handed to std_sort / insertion_sort
    input,         \* the range as it was at the call (never written)
    range,         \* the caller's storage [first, last)
    aux,           \* std::vector aux of radix_sort::operator()
    pc,            \* position in the running call
    pass,          \* loop variable of operator() (line 130)
    src, dst,      \* storage behind (first, last) and out_begin in sort()
    start_bit,     \* local of sort() (line 85)
    bucket_count,  \* local of sort() (line 88)
    out_index,     \* local of sort() (line 96); only its assigned slots exist
    it,            \* loop iterator (lines 59, 91, 101, 140), offset from first
    i,             \* loop variable of the prefix loop (line 98)
    pre, value,    \* locals of insertion_sort (lines 60, 61)
    aux_allocs,    \* history: number of aux buffers constructed
    calls,         \* history: the sort() calls made, in order
    snapshot,      \* history: the source of the running sort() at its entry
    written,       \* history: writes to each out_begin slot in this sort()
    copied         \* history: elements moved by the copy-back loop

vars == <<engine, Pass, N, cmp, input, range, aux, pc, pass, src, dst,
          start_bit, bucket_count, out_index, it, i, pre, value,
          aux_allocs, calls, snapshot, written, copied>>

(* ---- values ---- *)
Engines == {"std", "insertion", "radix"}
Comparators == {"less", "greater"}

\* value-initialised element of the aux vector (line 127)
DefaultElem == [key |-> 0, id |-> 0]

\* static_assert((N % Pass) == 0), line 81
Configs == {c \in (1..MaxBits) \X (1..MaxBits) : c[2] % c[1] = 0}

Inputs ==
    UNION {{[k \in 1..n |-> [key |-> f[k], id |-> k]] : f \in [1..n -> 0..MaxKey]}
           : n \in 0..MaxLen}

NoFn == <<>>

(* ---- helpers ---- *)
At(s, k) == s[k + 1]
Put(s, k, v) == [s EXCEPT ![k + 1] = v]

RECURSIVE Pow2(_)
Pow2(n) == IF n = 0 THEN 1 ELSE 2 * Pow2(n - 1)

\* identity / user getter: the key of an element
getter(e) == e.key

\* the comparator object
compare(a, b) ==
    IF cmp = "less" THEN a.key < b.key ELSE a.key > b.key

\* mutant: first <= last
NonEmpty_Inclusive(s) == 0 <= Len(s)

\* first < last
NonEmpty(s) == 0 < Len(s)

n_passes == N \div Pass
n_buckets == Pow2(Pass)
bit_mask == Pow2(Pass) - 1

\* mutant: the shift by start_bit is left out
BucketOf_NoShift(e, sb) == getter(e) % (bit_mask + 1)

\* (getter(*it) >> start_bit) & bit_mask
BucketOf(e, sb) == (getter(e) \div Pow2(sb)) % (bit_mask + 1)

\* mutant: every pass reads the caller's range
ReadsRange_Always(p) == TRUE

\* !(pass & 1)
ReadsRange(p) == p % 2 = 0

\* mutant: the copy-back is never taken
NeedsCopyBack_Never == FALSE

\* if constexpr (n_passes & 1)
NeedsCopyBack == n_passes % 2 = 1

\* mutant: the bucket's own count is added instead of its predecessor's
NextOffset_OwnCount(oi, bc, k) == oi[k - 1] + bc[k]

\* out_index[i - 1] + bucket_count[i - 1]
NextOffset(oi, bc, k) == oi[k - 1] + bc[k - 1]

\* mutant: shifts past elements that are merely not less than value
ShiftCond_NonStrict(p, v, r) == p > 0 /\ ~compare(At(r, p - 1), v)

\* pre > first && compare(value, *(pre-1))
ShiftCond(p, v, r) == p > 0 /\ compare(v, At(r, p - 1))

Store(name) == IF name = "range" THEN range ELSE aux

(* ---- initial states: the state at the call ---- *)
Init ==
    /\ engine \in Engines
    /\ \E c \in Configs :
         /\ Pass = (IF engine = "radix" THEN c[1] ELSE 1)
         /\ N = (IF engine = "radix" THEN c[2] ELSE 1)
    /\ \E m \in Comparators : cmp = (IF engine = "radix" THEN "less" ELSE m)
    /\ input \in Inputs
    /\ range = input
    /\ aux = <<>>
    /\ pc = "call"
    /\ pass = 0
    /\ src = "none"
    /\ dst = "none"
    /\ start_bit = 0
    /\ bucket_count = NoFn
    /\ out_index = NoFn
    /\ it = 0
    /\ i = 0
    /\ pre = 0
    /\ value = DefaultElem
    /\ aux_allocs = 0
    /\ calls = <<>>
    /\ snapshot = <<>>
    /\ written = <<>>
    /\ copied = 0

(* ---- radix_sort<Pass, N>::operator(), lines 124-148 ---- *)

SortLocalsIdle ==
    /\ src' = "none"
    /\ dst' = "none"
    /\ start_bit' = 0
    /\ bucket_count' = NoFn
    /\ out_index' = NoFn
    /\ i' = 0
    /\ snapshot' = <<>>
    /\ written' = <<>>

\* line 125, guard false: the call returns at once
RadixEmpty ==
    /\ pc = "call" /\ engine = "radix"
    /\ ~NonEmpty(range)
    /\ pc' = "done"
    /\ UNCHANGED <<engine, Pass, N, cmp, input, range, aux, pass, src, dst,
                   start_bit, bucket_count, out_index, it, i, pre, value,
                   aux_allocs, calls, snapshot, written, copied>>

\* lines 125-128: guard true, aux is constructed with distance(first, last)
\* value-initialised elements; line 130 sets pass = 0
RadixAlloc ==
    /\ pc = "call" /\ engine = "radix"
    /\ NonEmpty(range)
    /\ aux' = [k \in 1..Len(range) |-> DefaultElem]
    /\ aux_allocs' = aux_allocs + 1
    /\ pass' = 0
    /\ pc' = "loop"
    /\ UNCHANGED <<engine, Pass, N, cmp, input, range, src, dst,
                   start_bit, bucket_count, out_index, it, i, pre, value,
                   calls, snapshot, written, copied>>

\* entry of sort(first, last, out_begin, getter, pass), lines 84-91
EnterSort(from, to) ==
    /\ src' = from
    /\ dst' = to
    /\ start_bit' = pass * Pass
    /\ bucket_count' = [b \in 0..(n_buckets - 1) |-> 0]
    /\ out_index' = NoFn
    /\ it' = 0
    /\ i' = 0
    /\ pc' = "tally"
    /\ calls' = Append(calls, [pass |-> pass, src |-> from, dst |-> to])
    /\ snapshot' = Store(from)
    /\ written' = [k \in 1..Len(Store(to)) |-> 0]
    /\ UNCHANGED <<engine, Pass, N, cmp, input, range, aux, pass, pre, value,
                   aux_allocs, copied>>

\* lines 130-132: sort(first, last, aux.begin(), getter, pass)
PassFromRange ==
    /\ pc = "loop"
    /\ pass < n_passes
    /\ ReadsRange(pass)
    /\ EnterSort("range", "aux")

\* lines 130-134: sort(aux.begin(), aux.end(), first, getter, pass)
PassFromAux ==
    /\ pc = "loop"
    /\ pass < n_passes
    /\ ~ReadsRange(pass)
    /\ EnterSort("aux", "range")

\* lines 91-94, loop body
TallyStep ==
    /\ pc = "tally"
    /\ it < Len(Store(src))
    /\ LET bucket == BucketOf(At(Store(src), it), start_bit)
       IN bucket_count' = [bucket_count EXCEPT ![bucket] = @ + 1]
    /\ it' = it + 1
    /\ UNCHANGED <<engine, Pass, N, cmp, input, range, aux, pc, pass, src, dst,
                   start_bit, out_index, i, pre, value,
                   aux_allocs, calls, snapshot, written, copied>>

\* line 91 loop exit, lines 96-98: out_index[0] = 0, i = 1
TallyExit ==
    /\ pc = "tally"
    /\ ~(it < Len(Store(src)))
    /\ out_index' = [b \in {0} |-> 0]
    /\ i' = 1
    /\ pc' = "prefix"
    /\ UNCHANGED <<engine, Pass, N, cmp, input, range, aux, pass, src, dst,
                   start_bit, bucket_count, it, pre, value,
                   aux_allocs, calls, snapshot, written, copied>>

\* lines 98-99, loop body
PrefixStep ==
    /\ pc = "prefix"
    /\ i < n_buckets
    /\ out_index' = [b \in 0..i |->
                       IF b = i THEN NextOffset(out_index, bucket_count, i)
                                ELSE out_index[b]]
    /\ i' = i + 1
    /\ UNCHANGED <<engine, Pass, N, cmp, input, range, aux, pc, pass, src, dst,
                   start_bit, bucket_count, it, pre, value,
                   aux_allocs, calls, snapshot, written, copied>>

\* line 98 loop exit, line 101: it = first
PrefixExit ==
    /\ pc = "prefix"
    /\ ~(i < n_buckets)
    /\ it' = 0
    /\ pc' = "scatter"
    /\ UNCHANGED <<engine, Pass, N, cmp, input, range, aux, pass, src, dst,
                   start_bit, bucket_count, out_index, i, pre, value,
                   aux_allocs, calls, snapshot, written, copied>>

\* lines 101-104, loop body: out_begin[out_index[bucket]++] = *it
ScatterStep ==
    /\ pc = "scatter"
    /\ it < Len(Store(src))
    /\ LET e == At(Store(src), it)
           bucket == BucketOf(e, start_bit)
           at == out_index[bucket]
       IN /\ IF dst = "range"
             THEN range' = Put(range, at, e) /\ aux' = aux
             ELSE aux' = Put(aux, at, e) /\ range' = range
          /\ out_index' = [out_index EXCEPT ![bucket] = @ + 1]
          /\ written' = [written EXCEPT ![at + 1] = @ + 1]
    /\ it' = it + 1
    /\ UNCHANGED <<engine, Pass, N, cmp, input, pc, pass, src, dst,
                   start_bit, bucket_count, i, pre, value,
                   aux_allocs, calls, snapshot, copied>>

\* line 101 loop exit: sort() returns, line 130 ++pass
ScatterExit ==
    /\ pc = "scatter"
    /\ ~(it < Len(Store(src)))
    /\ pass' = pass + 1
    /\ it' = 0
    /\ pc' = "loop"
    /\ SortLocalsIdle
    /\ UNCHANGED <<engine, Pass, N, cmp, input, range, aux, pre, value,
                   aux_allocs, calls, copied>>

\* line 130 loop exit, lines 139-140: odd pass count, it = first
LoopExitCopy ==
    /\ pc = "loop"
    /\ ~(pass < n_passes)
    /\ NeedsCopyBack
    /\ it' = 0
    /\ pc' = "copy"
    /\ UNCHANGED <<engine, Pass, N, cmp, input, range, aux, pass, src, dst,
                   start_bit, bucket_count, out_index, i, pre, value,
                   aux_allocs, calls, snapshot, written, copied>>

\* line 130 loop exit, line 139 false: return, aux is destroyed
LoopExitReturn ==
    /\ pc = "loop"
    /\ ~(pass < n_passes)
    /\ ~NeedsCopyBack
    /\ aux' = <<>>
    /\ pc' = "done"
    /\ UNCHANGED <<engine, Pass, N, cmp, input, range, pass, src, dst,
                   start_bit, bucket_count, out_index, it, i, pre, value,
                   aux_allocs, calls, snapshot, written, copied>>

\* lines 142-144, loop body: *(it++) = std::move(v)
CopyStep ==
    /\ pc = "copy"
    /\ it < Len(aux)
    /\ range' = Put(range, it, At(aux, it))
    /\ it' = it + 1
    /\ copied' = copied + 1
    /\ UNCHANGED <<engine, Pass, N, cmp, input, aux, pc, pass, src, dst,
                   start_bit, bucket_count, out_index, i, pre, value,
                   aux_allocs, calls, snapshot, written>>

\* line 142 loop exit: return, aux is destroyed
CopyExit ==
    /\ pc = "copy"
    /\ ~(it < Len(aux))
    /\ aux' = <<>>
    /\ it' = 0
    /\ pc' = "done"
    /\ UNCHANGED <<engine, Pass, N, cmp, input, range, pass, src, dst,
                   start_bit, bucket_count, out_index, i, pre, value,
                   aux_allocs, calls, snapshot, written, copied>>

(* ---- insertion_sort::operator(), lines 57-70 ---- *)

\* line 58, guard false
InsEmpty ==
    /\ pc = "call" /\ engine = "insertion"
    /\ ~NonEmpty(range)
    /\ pc' = "done"
    /\ UNCHANGED <<engine, Pass, N, cmp, input, range, aux, pass, src, dst,
                   start_bit, bucket_count, out_index, it, i, pre, value,
                   aux_allocs, calls, snapshot, written, copied>>

\* lines 58-59: it = first + 1
InsEnter ==
    /\ pc = "call" /\ engine = "insertion"
    /\ NonEmpty(range)
    /\ it' = 1
    /\ pc' = "outer"
    /\ UNCHANGED <<engine, Pass, N, cmp, input, range, aux, pass, src, dst,
                   start_bit, bucket_count, out_index, i, pre, value,
                   aux_allocs, calls, snapshot, written, copied>>

\* lines 59-61: value = std::move(*it), pre = it
InsOuterStep ==
    /\ pc = "outer"
    /\ it < Len(range)
    /\ value' = At(range, it)
    /\ pre' = it
    /\ pc' = "inner"
    /\ UNCHANGED <<engine, Pass, N, cmp, input, range, aux, pass, src, dst,
                   start_bit, bucket_count, out_index, it, i,
                   aux_allocs, calls, snapshot, written, copied>>

\* line 59 loop exit: return
InsOuterExit ==
    /\ pc = "outer"
    /\ ~(it < Len(range))
    /\ it' = 0
    /\ pc' = "done"
    /\ UNCHANGED <<engine, Pass, N, cmp, input, range, aux, pass, src, dst,
                   start_bit, bucket_count, out_index, i, pre, value,
                   aux_allocs, calls, snapshot, written, copied>>

\* lines 63-65, loop body: *pre = std::move(*(pre-1)), --pre
InsShift ==
    /\ pc = "inner"
    /\ ShiftCond(pre, value, range)
    /\ range' = Put(range, pre, At(range, pre - 1))
    /\ pre' = pre - 1
    /\ UNCHANGED <<engine, Pass, N, cmp, input, aux, pc, pass, src, dst,
                   start_bit, bucket_count, out_index, it, i, value,
                   aux_allocs, calls, snapshot, written, copied>>

\* line 63 loop exit, line 67: *pre = std::move(value); line 59 ++it
InsPlace ==
    /\ pc = "inner"
    /\ ~ShiftCond(pre, value, range)
    /\ range' = Put(range, pre, value)
    /\ it' = it + 1
    /\ pre' = 0
    /\ value' = DefaultElem
    /\ pc' = "outer"
    /\ UNCHANGED <<engine, Pass, N, cmp, input, aux, pass, src, dst,
                   start_bit, bucket_count, out_index, i,
                   aux_allocs, calls, snapshot, written, copied>>

(* ---- std_sort::operator(), lines 37-39 ---- *)

Perms(n) == {p \in [1..n -> 1..n] : \A a, b \in 1..n : a # b => p[a] # p[b]}

\* what std::sort promises of its result: a rearrangement of the range in
\* which no element compares less than one before it; the order of
\* equivalent elements is left open
StdSortResults(r) ==
    {[k \in 1..Len(r) |-> r[p[k]]] : p \in
        {q \in Perms(Len(r)) :
            \A a, b \in 1..Len(r) : a < b => ~compare(r[q[b]], r[q[a]])}}

\* line 38: std::sort(first, last, compare)
StdSort ==
    /\ pc = "call" /\ engine = "std"
    /\ range' \in StdSortResults(range)
    /\ pc' = "done"
    /\ UNCHANGED <<engine, Pass, N, cmp, input, aux, pass, src, dst,
                   start_bit, bucket_count, out_index, it, i, pre, value,
                   aux_allocs, calls, snapshot, written, copied>>

Next ==
    \/ RadixEmpty \/ RadixAlloc
    \/ PassFromRange \/ PassFromAux
    \/ TallyStep \/ TallyExit
    \/ PrefixStep \/ PrefixExit
    \/ ScatterStep \/ ScatterExit
    \/ LoopExitCopy \/ LoopExitReturn
    \/ CopyStep \/ CopyExit
    \/ InsEmpty \/ InsEnter
    \/ InsOuterStep \/ InsOuterExit
    \/ InsShift \/ InsPlace
    \/ StdSort

Spec == Init /\ [][Next]_vars

(***************************************************************************)
(* Vocabulary of the properties                                            *)
(***************************************************************************)
Elems(s) == {s[k] : k \in 1..Len(s)}
Count(e, s) == Cardinality({k \in 1..Len(s) : s[k] = e})

\* a and b hold the same elements, each as often
IsPermutation(a, b) ==
    /\ Len(a) = Len(b)
    /\ \A e \in Elems(a) \cup Elems(b) : Count(e, a) = Count(e, b)

\* position of e in s (the elements of an input are pairwise distinct)
PosIn(s, e) == CHOOSE k \in 1..Len(s) : s[k] = e

\* out is in arranged non-decreasing by K, elements of equal K in in's order
IsStableSortBy(out, in, K(_)) ==
    /\ IsPermutation(out, in)
    /\ \A a, b \in 1..Len(out) : a < b =>
         /\ K(out[a]) <= K(out[b])
         /\ K(out[a]) = K(out[b]) => PosIn(in, out[a]) < PosIn(in, out[b])

\* reference stable sort: the element of s at position p goes to its rank,
\* the number of elements that must precede it
RefStableSort(s, K(_)) ==
    LET Rank(p) == 1 + Cardinality({q \in 1..Len(s) :
                        \/ K(s[q]) < K(s[p])
                        \/ K(s[q]) = K(s[p]) /\ q < p})
    IN [k \in 1..Len(s) |-> s[CHOOSE p \in 1..Len(s) : Rank(p) = k]]

Equivalent(a, b) == ~compare(a, b) /\ ~compare(b, a)

\* no adjacent pair with compare(next, prev)
SortedUnderCompare(s) == \A k \in 1..(Len(s) - 1) : ~compare(s[k + 1], s[k])

KeysBelow(s, bits) == \A k \in 1..Len(s) : s[k].key < Pow2(bits)

KeysNonDecreasing(s) == \A k \in 1..(Len(s) - 1) : s[k].key <= s[k + 1].key

\* sum of f[0] .. f[b - 1]
RECURSIVE SumBelow(_, _)
SumBelow(f, b) == IF b = 0 THEN 0 ELSE f[b - 1] + SumBelow(f, b - 1)

InSort == pc \in {"tally", "prefix", "scatter"}

(***************************************************************************)
(* C1: a finished radix_sort<Pass, N> call on keys in [0, 2^N) leaves in   *)
(* the caller's range a permutation of the input that is non-decreasing by *)
(* key with equal keys in input order: the result of a reference stable    *)
(* sort by the key.                                                        *)
(***************************************************************************)
C1_RadixStableSort ==
    (engine = "radix" /\ pc = "done" /\ KeysBelow(input, N)) =>
        /\ IsStableSortBy(range, input, LAMBDA e : e.key)
        /\ range = RefStableSort(input, LAMBDA e : e.key)

C1_Witness ==
    /\ engine = "radix" /\ pc = "done" /\ KeysBelow(input, N)
    /\ N \div Pass = 2
    /\ Len(input) = 3
    /\ input[1].key > input[2].key
    /\ input[2].key = input[3].key
    /\ range = <<input[2], input[3], input[1]>>

(***************************************************************************)
(* C2: a finished insertion_sort call leaves a permutation of the input    *)
(* with no adjacent pair out of order under the comparator, and elements   *)
(* equivalent under the comparator in their input order.                   *)
(***************************************************************************)
C2_InsertionStableSort ==
    (engine = "insertion" /\ pc = "done") =>
        /\ IsPermutation(range, input)
        /\ SortedUnderCompare(range)
        /\ \A a, b \in 1..Len(range) :
             (a < b /\ Equivalent(range[a], range[b])) =>
                 PosIn(input, range[a]) < PosIn(input, range[b])

C2_Witness ==
    /\ engine = "insertion" /\ pc = "done"
    /\ cmp = "greater"
    /\ Len(input) = 3
    /\ input[1].key < input[2].key
    /\ input[1].key = input[3].key
    /\ range = <<input[2], input[1], input[3]>>

(***************************************************************************)
(* C3 as stated: a radix_sort call on a range of length 0 or 1 never       *)
(* constructs the auxiliary buffer, never runs a bucketize pass and        *)
(* returns the range unchanged.                                            *)
(***************************************************************************)
C3_TrivialSkipsBuffer ==
    (engine = "radix" /\ Len(input) <= 1) =>
        /\ aux_allocs = 0
        /\ aux = <<>>
        /\ calls = <<>>
        /\ pc = "done" => range = input

(***************************************************************************)
(* C3 amended: a radix_sort call on an empty range never constructs the    *)
(* auxiliary buffer and runs no bucketize pass; a call on a range of       *)
(* length 1 constructs a one-element buffer and runs all N/Pass passes     *)
(* (with the copy-back when N/Pass is odd); in both the range is never     *)
(* changed.                                                                *)
(***************************************************************************)
C3_EmptySkipsBuffer ==
    engine = "radix" =>
        /\ Len(input) = 0 =>
             /\ aux_allocs = 0
             /\ aux = <<>>
             /\ calls = <<>>
             /\ range = input
        /\ Len(input) = 1 =>
             /\ range = input
             /\ pc # "call" => aux_allocs = 1
             /\ pc \notin {"call", "done"} => Len(aux) = 1
             /\ pc = "done" => Len(calls) = N \div Pass

C3_Witness ==
    /\ engine = "radix" /\ pc = "done"
    /\ Len(input) = 1
    /\ aux_allocs = 1
    /\ Len(calls) = 2
    /\ range = input

(***************************************************************************)
(* C4: in a radix_sort call on a non-empty range, the copy-back loop runs  *)
(* only when N/Pass is odd, only after all N/Pass passes, and moves the    *)
(* buffer into the range slot by slot, every slot by the return; when      *)
(* N/Pass is even no element is ever copied back; at the return the range  *)
(* holds the input stably sorted by its N-bit key.                         *)
(***************************************************************************)
C4_CopyBackIffOdd ==
    (engine = "radix" /\ Len(input) > 0) =>
        /\ (N \div Pass) % 2 = 0 => (copied = 0 /\ pc # "copy")
        /\ pc = "copy" =>
             /\ (N \div Pass) % 2 = 1
             /\ Len(calls) = N \div Pass
             /\ copied = it
             /\ \A k \in 1..copied : range[k] = aux[k]
             /\ IsStableSortBy(aux, input, LAMBDA e : e.key % Pow2(N))
        /\ copied > 0 => Len(calls) = N \div Pass
        /\ pc = "done" =>
             /\ (N \div Pass) % 2 = 1 => copied = Len(input)
             /\ IsStableSortBy(range, input, LAMBDA e : e.key % Pow2(N))

C4_Witness ==
    /\ engine = "radix" /\ pc = "done"
    /\ N \div Pass = 3
    /\ Len(input) = 3
    /\ copied = 3
    /\ range # input
    /\ range[1].key < range[3].key

(***************************************************************************)
(* C5: the sort() calls of a radix_sort call are made for pass 0, 1, ...   *)
(* in this order, N/Pass of them by the time a call on a non-empty range   *)
(* leaves the pass loop; an even pass reads the caller's range and writes  *)
(* the buffer, an odd pass reads the buffer and writes the range; the      *)
(* running pass never reads the storage it writes.                         *)
(***************************************************************************)
C5_PassesAlternate ==
    engine = "radix" =>
        /\ Len(calls) <= N \div Pass
        /\ \A k \in 1..Len(calls) :
             calls[k] = [pass |-> k - 1,
                         src |-> IF (k - 1) % 2 = 0 THEN "range" ELSE "aux",
                         dst |-> IF (k - 1) % 2 = 0 THEN "aux" ELSE "range"]
        /\ InSort =>
             /\ src # dst
             /\ calls[Len(calls)] = [pass |-> pass, src |-> src, dst |-> dst]
        /\ (Len(input) > 0 /\ pc \in {"copy", "done"}) =>
             Len(calls) = N \div Pass

C5_Witness ==
    /\ engine = "radix" /\ pc = "scatter"
    /\ N \div Pass = 3
    /\ pass = 2
    /\ Len(calls) = 3
    /\ src = "range" /\ dst = "aux"
    /\ it = 2

(***************************************************************************)
(* C6 as stated: each of the three engines returns an already sorted range *)
(* element for element as it was.                                          *)
(***************************************************************************)
C6_IdempotentAllEngines ==
    pc = "done" =>
        /\ (engine \in {"std", "insertion"} /\ SortedUnderCompare(input)) =>
             range = input
        /\ (engine = "radix" /\ KeysBelow(input, N) /\ KeysNonDecreasing(input)) =>
             range = input

(***************************************************************************)
(* C6 amended: insertion_sort and radix_sort (keys in [0, 2^N)) return an  *)
(* already sorted range element for element as it was; std_sort returns a  *)
(* permutation of it with the same sequence of keys, element for element   *)
(* the same when no two elements are equivalent under the comparator.      *)
(***************************************************************************)
C6_Idempotent ==
    pc = "done" =>
        /\ (engine = "insertion" /\ SortedUnderCompare(input)) =>
             range = input
        /\ (engine = "radix" /\ KeysBelow(input, N) /\ KeysNonDecreasing(input)) =>
             range = input
        /\ (engine = "std" /\ SortedUnderCompare(input)) =>
             /\ IsPermutation(range, input)
             /\ \A k \in 1..Len(input) : range[k].key = input[k].key
             /\ (\A a, b \in 1..Len(input) :
                    a # b => ~Equivalent(input[a], input[b])) => range = input

C6_WitnessStd ==
    /\ pc = "done" /\ engine = "std"
    /\ SortedUnderCompare(input)
    /\ Len(input) = 3
    /\ input[1].key < input[2].key
    /\ input[2].key = input[3].key
    /\ range = <<input[1], input[3], input[2]>>

C6_Witness ==
    /\ pc = "done" /\ engine \in {"insertion", "radix"}
    /\ SortedUnderCompare(input)
    /\ KeysBelow(input, N)
    /\ Len(input) = 3
    /\ input[1].key = input[2].key
    /\ input[2].key < input[3].key
    /\ range = input

(***************************************************************************)
(* C7: when the scatter loop of a sort() call for pass p has finished, the *)
(* source is as it was at the call, every destination slot was written     *)
(* exactly once, and the destination holds the source's elements in        *)
(* non-decreasing order of (key >> p*Pass) & (2^Pass - 1), elements of the *)
(* same windowed key in the source's order.                                *)
(***************************************************************************)
C7_PassIsStablePartition ==
    (pc = "scatter" /\ it = Len(snapshot)) =>
        LET p == calls[Len(calls)].pass
            W(e) == (e.key \div Pow2(p * Pass)) % Pow2(Pass)
        IN /\ Store(src) = snapshot
           /\ Len(Store(dst)) = Len(snapshot)
           /\ \A k \in 1..Len(snapshot) : written[k] = 1
           /\ IsStableSortBy(Store(dst), snapshot, W)

C7_Witness ==
    /\ pc = "scatter" /\ it = Len(snapshot)
    /\ pass = 1 /\ Pass = 1
    /\ Len(snapshot) = 3
    /\ snapshot[1].key = 2 /\ snapshot[2].key = 1 /\ snapshot[3].key = 3
    /\ Store(dst) = <<snapshot[2], snapshot[1], snapshot[3]>>

(***************************************************************************)
(* C8: after the tally loop the 2^Pass counts sum to the range length;     *)
(* every offset the prefix loop has assigned is the sum of the counts of   *)
(* the buckets before it, so that at the start of the scatter loop         *)
(* out_index is the exclusive prefix sum; whenever the scatter loop uses a *)
(* bucket's offset as write index it is below the start of the next bucket *)
(* (the range length for the last bucket).                                 *)
(***************************************************************************)
C8_CountsAndOffsets ==
    /\ pc \in {"prefix", "scatter"} =>
         /\ DOMAIN bucket_count = 0..(Pow2(Pass) - 1)
         /\ SumBelow(bucket_count, Pow2(Pass)) = Len(snapshot)
    /\ pc = "prefix" =>
         /\ DOMAIN out_index = 0..(i - 1)
         /\ \A b \in 0..(i - 1) : out_index[b] = SumBelow(bucket_count, b)
    /\ (pc = "scatter" /\ it = 0) =>
         /\ DOMAIN out_index = 0..(Pow2(Pass) - 1)
         /\ \A b \in 0..(Pow2(Pass) - 1) :
              out_index[b] = SumBelow(bucket_count, b)
    /\ (pc = "scatter" /\ it < Len(snapshot)) =>
         LET e == snapshot[it + 1]
             b == (e.key \div Pow2(start_bit)) % Pow2(Pass)
         IN /\ out_index[b] >= SumBelow(bucket_count, b)
            /\ out_index[b] < SumBelow(bucket_count, b + 1)
            /\ out_index[b] < Len(snapshot)

C8_Witness ==
    /\ pc = "scatter" /\ it = 2
    /\ Pass = 2
    /\ Len(snapshot) = 3
    /\ bucket_count = [b \in 0..3 |-> IF b = 1 THEN 2 ELSE IF b = 3 THEN 1 ELSE 0]
    /\ out_index[1] = 1 /\ out_index[3] = 3
    /\ snapshot[3].key = 1

(***************************************************************************)
(* C9: whenever k passes of a radix_sort call have completed (0 <= k <=    *)
(* N/Pass), the destination of pass k-1 (the caller's range for k = 0)     *)
(* holds a permutation of the input that is non-decreasing by the low      *)
(* k*Pass bits of the key, elements that agree on those bits in input      *)
(* order.                                                                  *)
(***************************************************************************)
C9_LsdLoopInvariant ==
    (engine = "radix" /\ pc = "loop") =>
        LET k == Len(calls)
            cur == IF k = 0 THEN range
                   ELSE IF calls[k].dst = "range" THEN range ELSE aux
        IN /\ k = pass
           /\ k <= N \div Pass
           /\ IsStableSortBy(cur, input, LAMBDA e : e.key % Pow2(k * Pass))

C9_Witness ==
    /\ engine = "radix" /\ pc = "loop"
    /\ Pass = 1 /\ N = 3 /\ pass = 1
    /\ Len(input) = 3
    /\ input[1].key = 3 /\ input[2].key = 0 /\ input[3].key = 1
    /\ aux = <<input[2], input[1], input[3]>>
    /\ range = input

(***************************************************************************)
(* C10: radix_sort<Pass, N> looks only at the low N bits of the key: the   *)
(* finished call leaves a permutation of the input stably sorted by        *)
(* key mod 2^N, whatever the higher bits are.                              *)
(***************************************************************************)
C10_SortsByLowBits ==
    (engine = "radix" /\ pc = "done") =>
        IsStableSortBy(range, input, LAMBDA e : e.key % Pow2(N))

C10_Witness ==
    /\ engine = "radix" /\ pc = "done"
    /\ N = 1
    /\ Len(input) = 3
    /\ input[1].key = 2 /\ input[2].key = 1 /\ input[3].key = 0
    /\ range = <<input[1], input[3], input[2]>>
    /\ ~KeysNonDecreasing(range)

====
